---- MODULE Spec2Model ----
(***************************************************************************)
(* watchgit: the repository registry of db.c.                              *)
(*                                                                         *)
(* The registry is one SQLite table, repos_table(id, aliases, paths).      *)
(* Every statement db.c runs is text: a printf template into which the     *)
(* caller's alias (and the resolved path) is formatted, handed to          *)
(* sqlite3_exec.  The model keeps that text.  A string is a sequence of    *)
(* symbols; a symbol is either one character or one fixed fragment of SQL  *)
(* text (see the symbols below).  Sprintf formats a template, Tokenize and *)
(* sqlite3_exec read the formatted text the way the engine does: a double  *)
(* quote opens a token that runs to the next lone double quote, "" inside  *)
(* it stands for one quote, -- starts a comment, ; ends a statement, and a *)
(* double-quoted token that names a column of the table in scope is that   *)
(* column.                                                                 *)
(*                                                                         *)
(* Memory exhaustion (malloc returning NULL) and engine I/O failures       *)
(* during insert, delete and select are not modelled.                      *)
(***************************************************************************)
EXTENDS Integers, Sequences, FiniteSets, TLC

(* ------------------------------ bounds --------------------------------- *)

\* AUTOINCREMENT hands out ids 1, 2, ... without end; inserts stop here.
MaxId == 2

\* A handler is "fail at its k-th invocation", k in 1..MaxFailAt, or never.
MaxFailAt == 1
MaxRows == 2
MaxAliasLen == 3
NumProcs == 2
MaxFiles == 2

(* ------------------------- program constants --------------------------- *)

SCHEMA_VERSION == 1

SQLITE_OK == 0
SQLITE_ERROR == 1
SQLITE_ABORT == 4
SQLITE_CONSTRAINT == 19

\* limits.h: the size of abspath, the terminating NUL included.
PATH_MAX == 4096

(* ------------------------------ symbols -------------------------------- *)

Q == "\""

\* Fragments of the templates of db.c.
INS == "INSERT INTO repos_table (aliases, paths) VALUES("
SEP == ", "
RP == ")"
DELW == "DELETE FROM repos_table WHERE aliases="
SELP == "SELECT paths FROM repos_table WHERE aliases="
SELALL == "SELECT aliases, paths FROM repos_table ORDER BY aliases ASC"
PCT == "%s"

\* Fragments a caller can put into an alias: a second statement, a
\* statement separator, a comment opener.
DEL == " DELETE FROM repos_table "
SEMI == ";"
DASH == "--"
SETVER == "PRAGMA schema_version = 2 "
UPD == "UPDATE repos_table SET paths = '/y' "

\* The version the statement SETVER writes.
SetverValue == SCHEMA_VERSION + 1

\* The path the statement UPD writes.
UpdPath == <<"/", "y">>

\* First byte of every symbol that can occur in a stored text; the symbols
\* start with different bytes, so comparing first bytes symbol by symbol is
\* memcmp on the text (the BINARY collation of ORDER BY aliases).
Byte(s) ==
  CASE s = DEL -> 32
    [] s = Q -> 34
    [] s = DASH -> 45
    [] s = "/" -> 47
    [] s = SEMI -> 59
    [] s = SETVER -> 80
    [] s = UPD -> 85
    [] s = "aliases" -> 97
    [] s = "paths" -> 112
    [] s = "q" -> 113
    [] s = "x" -> 120
    [] s = "y" -> 121
    [] s = "z" -> 122
    [] OTHER -> 0

(* --------------------------- inputs ------------------------------------ *)

\* The aliases a caller passes.
Aliases ==
  { <<"x">>,                        \* x
    <<"y">>,                        \* y
    <<"aliases">>,                  \* aliases    (a column's name)
    <<"x", Q, "y">>,                \* x"y        (as in o"brien)
    <<"x", Q, Q, "y">>,             \* x""y
    <<"x", Q, DASH>>,               \* x"--
    <<"x", Q, SEMI, DEL, DASH>> }   \* x"; DELETE FROM repos_table --

\* The aliases of the runs that look at the version stamp and at the stored
\* paths.
StampAliases ==
  { <<"x">>,
    <<"y">>,
    <<"x", Q, SEMI, SETVER, DASH>>,   \* x";PRAGMA schema_version = 2 --
    <<"q", Q, SEMI, UPD, DASH>> }     \* q";UPDATE repos_table SET paths = '/y' --

\* The file system realpath() sees: /x and /y are directories, /lnk is a
\* symbolic link to /x, /z"" is a directory whose name holds two quotes,
\* /nope does not exist.
NoPath == <<>>

RawPaths == {"/x", "/lnk", "/y", "/z\"\"", "/nope"}

realpath(raw) ==
  CASE raw = "/x" -> <<"/", "x">>
    [] raw = "/lnk" -> <<"/", "x">>
    [] raw = "/y" -> <<"/", "y">>
    [] raw = "/z\"\"" -> <<"/", "z", Q, Q>>
    [] OTHER -> NoPath

\* A handler: 0 never fails, k > 0 returns non-zero at its k-th invocation.
Handlers == 0..MaxFailAt

(* ------------------------------ sprintf -------------------------------- *)

RECURSIVE Sprintf(_, _)
\* sprintf(buf, template, args...): each %s takes the next argument.
Sprintf(template, args) ==
  IF template = <<>> THEN <<>>
  ELSE IF Head(template) = PCT
       THEN Head(args) \o Sprintf(Tail(template), Tail(args))
       ELSE <<Head(template)>> \o Sprintf(Tail(template), args)

InsertQuery == <<INS, Q, PCT, Q, SEP, Q, PCT, Q, RP>>
DeleteQuery == <<DELW, Q, PCT, Q>>
SelectQuery == <<SELP, Q, PCT, Q>>
ForeachQuery == <<SELALL>>

(* ------------------------ the engine: reading SQL ---------------------- *)

RECURSIVE ScanString(_, _, _)
\* The token opened by the double quote before position i: it runs to the
\* next double quote that is not doubled; a doubled one is one quote of the
\* token's text.  No closing quote: the token is illegal.
ScanString(text, i, acc) ==
  IF i > Len(text) THEN [ok |-> FALSE, val |-> acc, next |-> i]
  ELSE IF text[i] = Q
       THEN IF i + 1 <= Len(text) /\ text[i + 1] = Q
            THEN ScanString(text, i + 2, Append(acc, Q))
            ELSE [ok |-> TRUE, val |-> acc, next |-> i + 1]
       ELSE ScanString(text, i + 1, Append(acc, text[i]))

RECURSIVE Tokenize(_, _, _)
\* The tokens of the statement that starts at position i, up to its ; or
\* the end of the text (sqlite3_prepare reads one statement and reports where
\* the rest begins).  A comment runs to the end of the line, here the text.
Tokenize(text, i, toks) ==
  IF i > Len(text) THEN [ok |-> TRUE, toks |-> toks, next |-> i]
  ELSE IF text[i] = SEMI THEN [ok |-> TRUE, toks |-> toks, next |-> i + 1]
  ELSE IF text[i] = DASH THEN [ok |-> TRUE, toks |-> toks, next |-> Len(text) + 1]
  ELSE IF text[i] = Q
       THEN LET s == ScanString(text, i + 1, <<>>)
            IN IF s.ok
               THEN Tokenize(text, s.next, Append(toks, [t |-> "str", v |-> s.val]))
               ELSE [ok |-> FALSE, toks |-> toks, next |-> Len(text) + 1]
  ELSE Tokenize(text, i + 1, Append(toks, [t |-> text[i], v |-> <<>>]))

\* The kinds of the tokens, in order: the statement's shape.
Shape(toks) == [k \in 1..Len(toks) |-> toks[k].t]

(* ---------------------- the engine: running SQL ------------------------ *)

\* aliases = "v" for one row.  A double-quoted token that is the name of a
\* column of repos_table is that column; any other is a string literal.
WhereMatch(row, v) ==
  IF v = <<"aliases">> THEN row.alias = row.alias
  ELSE IF v = <<"paths">> THEN row.alias = row.path
  ELSE row.alias = v

RECURSIVE LexLess(_, _)
\* memcmp order of two texts.
LexLess(a, b) ==
  IF b = <<>> THEN FALSE
  ELSE IF a = <<>> THEN TRUE
  ELSE IF Head(a) = Head(b) THEN LexLess(Tail(a), Tail(b))
  ELSE Byte(Head(a)) < Byte(Head(b))

RECURSIVE ByRowid(_)
\* The rows in rowid order, the order of a scan without ORDER BY.
ByRowid(rows) ==
  IF rows = {} THEN <<>>
  ELSE LET r == CHOOSE r \in rows : \A o \in rows : r.id <= o.id
       IN <<r>> \o ByRowid(rows \ {r})

\* The query of foreach_repo without its ORDER BY: the rows as they were
\* inserted.
ByAliasUnordered(rows) == ByRowid(rows)

RECURSIVE ByAlias(_)
\* ORDER BY aliases ASC.
ByAlias(rows) ==
  IF rows = {} THEN <<>>
  ELSE LET r == CHOOSE r \in rows :
                  \A o \in rows : o = r \/ LexLess(r.alias, o.alias)
                                        \/ (o.alias = r.alias /\ r.id < o.id)
       IN <<r>> \o ByAlias(rows \ {r})

\* INSERT INTO repos_table (aliases, paths) VALUES(a, p) against
\* id INTEGER PRIMARY KEY AUTOINCREMENT, aliases TEXT UNIQUE, paths TEXT
\* UNIQUE.  st is [rows, seq, version, calls, rc]; seq is the largest id ever
\* used, version the schema version of the file.
SqlInsert(st, a, p) ==
  IF \E r \in st.rows : r.alias = a \/ r.path = p
  THEN [st EXCEPT !.rc = SQLITE_CONSTRAINT]
  ELSE [st EXCEPT !.rows = @ \cup {[id |-> st.seq + 1, alias |-> a, path |-> p]},
                  !.seq = @ + 1]

\* DELETE FROM repos_table WHERE aliases = v.
SqlDelete(st, v) ==
  [st EXCEPT !.rows = {r \in @ : ~WhereMatch(r, v)}]

\* DELETE FROM repos_table.
SqlDeleteAll(st) == [st EXCEPT !.rows = {}]

\* PRAGMA schema_version = v.
SqlSetVersion(st, v) == [st EXCEPT !.version = v]

\* UPDATE repos_table SET paths = p: with two rows the second one breaks
\* UNIQUE on paths and the statement changes nothing.
SqlUpdatePaths(st, p) ==
  IF Cardinality(st.rows) > 1
  THEN [st EXCEPT !.rc = SQLITE_CONSTRAINT]
  ELSE [st EXCEPT !.rows = {[r EXCEPT !.path = p] : r \in @}]

(* ------------------------- the row callback ---------------------------- *)

\* No callback (sqlite3_exec(..., NULL, NULL, NULL)) or a handler wrapped in
\* a callback_container.
NoCallback == [on |-> FALSE, h |-> 0]
Container(h) == [on |-> TRUE, h |-> h]

\* The caller's db_iter_func_t at its n-th invocation.
Handler(h, n) == IF h = n THEN 1 ELSE 0

\* status = r in place of status |= r: the last column's result alone.
BitOrLast(a, b) == b

\* status |= r, on the two values a handler of the model returns.
BitOr(a, b) == IF a # 0 \/ b # 0 THEN 1 ELSE 0

RECURSIVE foreach_repo_callback(_, _, _, _, _)
\* for (i = 0; i < argc; i++) status |= callback(col_name[i], argv[i]);
\* cols is the row as <<column name, value>> pairs; i counts from 1.
foreach_repo_callback(h, calls, cols, i, status) ==
  IF i > Len(cols) THEN [calls |-> calls, status |-> status]
  ELSE foreach_repo_callback(h, Append(calls, cols[i]), cols, i + 1,
                             BitOr(status, Handler(h, Len(calls) + 1)))

RECURSIVE SqlSelect(_, _, _, _)
\* The row loop of sqlite3_exec: the callback once per result row, in
\* order; a non-zero return ends the call with SQLITE_ABORT.  result is the
\* sequence of result rows, each a sequence of <<column name, value>>.
SqlSelect(st, result, k, cb) ==
  IF k > Len(result) \/ ~cb.on THEN st
  ELSE LET r == foreach_repo_callback(cb.h, st.calls, result[k], 1, 0)
       IN IF r.status # 0
          THEN [st EXCEPT !.calls = r.calls, !.rc = SQLITE_ABORT]
          ELSE SqlSelect([st EXCEPT !.calls = r.calls], result, k + 1, cb)

\* SELECT paths FROM repos_table WHERE aliases = v
SelectPaths(rows, v) ==
  LET hit == ByRowid({r \in rows : WhereMatch(r, v)})
  IN [k \in 1..Len(hit) |-> << <<"paths", hit[k].path>> >>]

\* SELECT aliases, paths FROM repos_table ORDER BY aliases ASC
SelectAll(rows) ==
  LET all == ByAlias(rows)
  IN [k \in 1..Len(all) |->
        << <<"aliases", all[k].alias>>, <<"paths", all[k].path>> >>]

\* One prepared statement, run to completion.
Step(toks, st, cb) ==
  LET sh == Shape(toks)
  IN CASE sh = <<>> -> st
       [] sh = <<INS, "str", SEP, "str", RP>> -> SqlInsert(st, toks[2].v, toks[4].v)
       [] sh = <<DELW, "str">> -> SqlDelete(st, toks[2].v)
       [] sh = <<DEL>> -> SqlDeleteAll(st)
       [] sh = <<SETVER>> -> SqlSetVersion(st, SetverValue)
       [] sh = <<UPD>> -> SqlUpdatePaths(st, UpdPath)
       [] sh = <<SELP, "str">> -> SqlSelect(st, SelectPaths(st.rows, toks[2].v), 1, cb)
       [] sh = <<SELALL>> -> SqlSelect(st, SelectAll(st.rows), 1, cb)
       [] OTHER -> [st EXCEPT !.rc = SQLITE_ERROR]

RECURSIVE sqlite3_exec(_, _, _, _)
\* sqlite3_exec(dbh, text, callback, arg, NULL): the statements of the text
\* one after the other from position i; the first error ends the call, and
\* what earlier statements did stays done.
sqlite3_exec(text, i, st, cb) ==
  IF i > Len(text) THEN st
  ELSE LET tk == Tokenize(text, i, <<>>)
       IN IF ~tk.ok THEN [st EXCEPT !.rc = SQLITE_ERROR]
          ELSE LET r == Step(tk.toks, st, cb)
               IN IF r.rc # SQLITE_OK THEN r
                  ELSE sqlite3_exec(text, tk.next, r, cb)

\* The table as a call finds it.
Start(store) ==
  [rows |-> store.rows, seq |-> store.seq, version |-> store.version,
   calls |-> <<>>, rc |-> SQLITE_OK]

(* ----------------------- registry operations --------------------------- *)

\* add_repo_to_db without the return on a failed realpath.
add_repo_to_db_unresolved(store, alias, path) ==
  sqlite3_exec(Sprintf(InsertQuery, <<alias, realpath(path)>>), 1,
               Start(store), NoCallback)

\* int add_repo_to_db(dbh, alias, path)
add_repo_to_db(store, alias, path) ==
  LET abspath == realpath(path)
  IN IF abspath = NoPath
     THEN [Start(store) EXCEPT !.rc = SQLITE_ERROR]
     ELSE sqlite3_exec(Sprintf(InsertQuery, <<alias, abspath>>), 1,
                       Start(store), NoCallback)

\* int remove_repo_from_db(dbh, alias)
remove_repo_from_db(store, alias) ==
  sqlite3_exec(Sprintf(DeleteQuery, <<alias>>), 1, Start(store), NoCallback)

\* int forsome_repos(dbh, function, alias)
forsome_repos(store, function, alias) ==
  sqlite3_exec(Sprintf(SelectQuery, <<alias>>), 1, Start(store),
               Container(function))

\* int foreach_repo(dbh, function): -1 unless sqlite3_exec returned SQLITE_OK
foreach_repo(store, function) ==
  LET r == sqlite3_exec(ForeachQuery, 1, Start(store), Container(function))
  IN [r EXCEPT !.rc = IF r.rc # SQLITE_OK THEN -1 ELSE 0]

(* --------------------------- schema version ---------------------------- *)

Digits == <<"0", "1", "2", "3", "4", "5", "6", "7", "8", "9">>

IsDigit(c) == \E d \in 1..10 : Digits[d] = c

DigitVal(c) == (CHOOSE d \in 1..10 : Digits[d] = c) - 1

RECURSIVE Itoa(_)
\* The decimal text the engine hands the callback for an integer column.
Itoa(n) ==
  IF n < 10 THEN <<Digits[n + 1]>> ELSE Append(Itoa(n \div 10), Digits[(n % 10) + 1])

RECURSIVE StrtolDigits(_, _, _)
StrtolDigits(text, i, acc) ==
  IF i <= Len(text) /\ IsDigit(text[i])
  THEN StrtolDigits(text, i + 1, acc * 10 + DigitVal(text[i]))
  ELSE [val |-> acc, end |-> i]

RECURSIVE SkipSpace(_, _)
SkipSpace(text, i) ==
  IF i <= Len(text) /\ text[i] = " " THEN SkipSpace(text, i + 1) ELSE i

\* strtol(text, &endptr, 10): white space, an optional sign, digits.  end is
\* the position endptr points at (Len(text) + 1 is the terminating NUL);
\* with no digits nothing is converted and endptr is the start of the text.
strtol(text) ==
  LET i == SkipSpace(text, 1)
      neg == i <= Len(text) /\ text[i] = "-"
      j == IF i <= Len(text) /\ text[i] \in {"-", "+"} THEN i + 1 ELSE i
      d == StrtolDigits(text, j, 0)
  IN IF d.end = j THEN [val |-> 0, end |-> 1]
     ELSE [val |-> IF neg THEN 0 - d.val ELSE d.val, end |-> d.end]

\* static int schema_version_callback(version, argc, argv, col_name)
schema_version_callback(argc, col_name, argv) ==
  IF argc # 1 \/ col_name # "schema_version"
  THEN [version |-> -1, ret |-> -1]
  ELSE LET p == strtol(argv)
       IN IF argv = <<>> \/ p.end # Len(argv) + 1
          THEN [version |-> -1, ret |-> -1]
          ELSE [version |-> p.val, ret |-> 0]

RECURSIVE ExecVersion(_, _, _)
\* sqlite3_exec(dbh, "PRAGMA schema_version", schema_version_callback,
\* &version, NULL) where the engine has reply.rows to deliver and ends with
\* reply.rc: the callback once per row from row k on, a non-zero return
\* aborts.  A row is [argc, col_name, argv]: the column count, col_name[0]
\* and argv[0].
ExecVersion(reply, k, version) ==
  IF k > Len(reply.rows) THEN [version |-> version, rc |-> reply.rc]
  ELSE LET row == reply.rows[k]
           r == schema_version_callback(row.argc, row.col_name, row.argv)
       IN IF r.ret # 0 THEN [version |-> r.version, rc |-> SQLITE_ABORT]
          ELSE ExecVersion(reply, k + 1, r.version)

\* int get_schema_version(dbh) on a reply of the engine.  int version is
\* declared without an initialiser: indeterminate is what it holds before
\* the callback has written it.
get_schema_version_reply(reply, indeterminate) ==
  LET r == ExecVersion(reply, 1, indeterminate)
  IN IF r.rc # SQLITE_OK THEN -1 ELSE r.version

\* What PRAGMA schema_version yields on a file: one row with one column,
\* schema_version; on a file that is no database the statement fails.
PragmaSchemaVersion(store) ==
  IF ~store.valid THEN [rows |-> <<>>, rc |-> SQLITE_ERROR]
  ELSE [rows |-> <<[argc |-> 1, col_name |-> "schema_version",
                    argv |-> Itoa(store.version)]>>,
        rc |-> SQLITE_OK]

\* int get_schema_version(dbh) on a file: either the statement fails or the
\* callback writes version, so what version held before is not read.
get_schema_version(store) ==
  get_schema_version_reply(PragmaSchemaVersion(store), -1)

\* The replies get_schema_version is checked against: up to MaxRows rows,
\* each with one or two columns, a first column named schema_version or
\* not, and a text that is a number, empty, a number followed or preceded
\* by something else, or no number.
VersionTexts ==
  {<<>>, <<"1">>, <<"2">>, <<"1", "x">>, <<" ", "1">>, <<"x">>}

VersionRows ==
  [argc : 1..2, col_name : {"schema_version", "user_version"},
   argv : VersionTexts]

Replies ==
  [rows : UNION {[1..n -> VersionRows] : n \in 0..MaxRows},
   rc : {SQLITE_OK, SQLITE_ERROR}]

\* The values an int that was never written can hold, among them the one
\* get_db_handle compares with.
Indeterminate == {-1, 0, SCHEMA_VERSION, SetverValue}

(* --------------------------- the query buffers ------------------------- *)

RECURSIVE strlen(_)
\* strlen of a text given as its symbols.
strlen(text) ==
  IF text = <<>> THEN 0 ELSE Len(Head(text)) + strlen(Tail(text))

RECURSIVE SprintfLen(_, _)
\* The number of bytes sprintf(buf, template, args...) writes before the
\* terminating NUL, when the arguments have the lengths lens.
SprintfLen(template, lens) ==
  IF template = <<>> THEN 0
  ELSE IF Head(template) = PCT
       THEN Head(lens) + SprintfLen(Tail(template), Tail(lens))
       ELSE Len(Head(template)) + SprintfLen(Tail(template), lens)

\* malloc(strlen(query) + strlen(alias)) with the %s left out of the count.
RemoveBufSizeExact(alias_len) == strlen(DeleteQuery) - Len(PCT) + alias_len

\* malloc(strlen(query) + sizeof(abspath) + strlen(alias) + 1)
AddBufSize(alias_len) == strlen(InsertQuery) + PATH_MAX + alias_len + 1

\* malloc(strlen(query) + strlen(alias)) of remove_repo_from_db
RemoveBufSize(alias_len) == strlen(DeleteQuery) + alias_len

\* malloc(strlen(query) + strlen(alias)) of forsome_repos
ForsomeBufSize(alias_len) == strlen(SelectQuery) + alias_len

(* ------------------------------ the handle ----------------------------- *)

NoFile == [exists |-> FALSE, valid |-> FALSE, version |-> 0, rows |-> {}, seq |-> 0]

\* What the environment can make fail inside get_db_handle.
Faults == {"none", "wordexp", "stat", "open_v2", "open", "create", "pragma"}

\* static sqlite3 *create_new_db(path).  The result: the handle returned,
\* the file afterwards, and the connections get_db_handle's caller was left
\* with (a failed sqlite3_open still hands out a connection to close).
create_new_db(store, fault) ==
  IF fault = "open"
  THEN [dbh |-> "NULL", store |-> store, conns |-> 1]
  ELSE IF fault \in {"create", "pragma"}
  THEN [dbh |-> "NULL", store |-> NoFile, conns |-> 0]
  ELSE [dbh |-> "open", conns |-> 1,
        store |-> [exists |-> TRUE, valid |-> TRUE, version |-> SCHEMA_VERSION,
                   rows |-> {}, seq |-> 0]]

\* get_db_handle without its close_db_handle(dbh) on a version mismatch.
get_db_handle_noclose(store, fault) ==
  IF fault = "wordexp" THEN [dbh |-> "NULL", store |-> store, conns |-> 0]
  ELSE IF ~store.exists THEN create_new_db(store, fault)
  ELSE IF fault = "stat" THEN [dbh |-> "NULL", store |-> store, conns |-> 0]
  ELSE IF fault = "open_v2" THEN [dbh |-> "NULL", store |-> store, conns |-> 1]
  ELSE IF get_schema_version(store) # SCHEMA_VERSION
  THEN [dbh |-> "NULL", store |-> store, conns |-> 1]
  ELSE [dbh |-> "open", store |-> store, conns |-> 1]

\* sqlite3 *get_db_handle(void)
get_db_handle(store, fault) ==
  IF fault = "wordexp" THEN [dbh |-> "NULL", store |-> store, conns |-> 0]
  ELSE IF ~store.exists THEN create_new_db(store, fault)
  ELSE IF fault = "stat" THEN [dbh |-> "NULL", store |-> store, conns |-> 0]
  ELSE IF fault = "open_v2" THEN [dbh |-> "NULL", store |-> store, conns |-> 1]
  ELSE IF get_schema_version(store) # SCHEMA_VERSION
  THEN [dbh |-> "NULL", store |-> store, conns |-> 0]
  ELSE [dbh |-> "open", store |-> store, conns |-> 1]

(* ------------------------------- state --------------------------------- *)

VARIABLES
  store,    \* the database file: exists, valid, version, rows, seq
  dbh,      \* the handle the caller holds: "NULL" or "open"
  conns,    \* connections of this run of the program not yet closed
  status,   \* what the last call returned
  calls,    \* the handler invocations of the last call, in order
  last,     \* the last call: op, alias, path, handler, fault
  pre,      \* the database file as the last call found it
  ver,      \* a call of get_schema_version on its own: reply, version, phase
  fmt,      \* a fullquery buffer: the call, the lengths, size, bytes written
  race      \* processes inside get_db_handle at once: path, disk, pc, conn, ret

main == <<store, dbh, conns, status, calls, last, pre>>
aux == <<ver, fmt, race>>
vars == <<store, dbh, conns, status, calls, last, pre, ver, fmt, race>>

Call(op, alias, path, h, fault) ==
  [op |-> op, alias |-> alias, path |-> path, h |-> h, fault |-> fault]

\* A file another build of the program (or anything else) left behind.
ForeignStores ==
  { [exists |-> TRUE, valid |-> TRUE, version |-> v,
     rows |-> {[id |-> 1, alias |-> <<"x">>, path |-> <<"/", "x">>]}, seq |-> 1]
      : v \in {2, 10} }
  \cup { [exists |-> TRUE, valid |-> TRUE, version |-> 0, rows |-> {}, seq |-> 0],
         [exists |-> TRUE, valid |-> FALSE, version |-> 0, rows |-> {}, seq |-> 0] }

\* Before main has called anything.
Fresh ==
  /\ dbh = "NULL"
  /\ conns = 0
  /\ status = 0
  /\ calls = <<>>
  /\ last = Call("start", <<>>, "", 0, "none")
  /\ pre = store

\* No call of get_schema_version on its own.
VerIdle == [reply |-> [rows |-> <<>>, rc |-> SQLITE_OK], version |-> 0,
            phase |-> "idle"]

\* No buffer looked at.
FmtIdle == [op |-> "idle", alias_len |-> 0, path_len |-> 0, size |-> 0,
            written |-> 0]

Procs == 1..NumProcs

\* The files sqlite3_open creates, one after the other; no more than
\* MaxFiles are created.
Files == 1..MaxFiles

\* race.path is the file DB_LOCATION names (0: none), race.disk[f] what file
\* f holds and who stamped and who unlinked it (0: nobody), race.pc[p] where
\* process p is, race.conn[p] the file its connection is on (0: none),
\* race.ret[p] what get_db_handle returned to it.
RaceStart(pc) ==
  [path |-> 0,
   disk |-> [f \in Files |-> [table |-> FALSE, version |-> 0,
                              stamped_by |-> 0, unlinked_by |-> 0]],
   pc |-> [p \in Procs |-> pc],
   conn |-> [p \in Procs |-> 0],
   ret |-> [p \in Procs |-> "none"]]

\* No process inside get_db_handle.
RaceIdle == RaceStart("idle")

Init ==
  /\ store \in {NoFile} \cup ForeignStores
  /\ Fresh
  /\ ver = VerIdle
  /\ fmt = FmtIdle
  /\ race = RaceIdle

\* A run of the program begins: main asks for the handle.
GetDbHandle ==
  /\ dbh = "NULL"
  /\ \E fault \in Faults :
       LET r == get_db_handle(store, fault)
       IN /\ store' = r.store
          /\ dbh' = r.dbh
          /\ conns' = r.conns
          /\ status' = IF r.dbh = "NULL" THEN 1 ELSE 0
          /\ last' = Call("open", <<>>, "", 0, fault)
  /\ calls' = <<>>
  /\ pre' = store
  /\ UNCHANGED aux

\* void close_db_handle(dbh)
CloseDbHandle ==
  /\ dbh = "open"
  /\ dbh' = "NULL"
  /\ conns' = conns - 1
  /\ status' = 0
  /\ calls' = <<>>
  /\ last' = Call("close", <<>>, "", 0, "none")
  /\ pre' = store
  /\ UNCHANGED store
  /\ UNCHANGED aux

\* The file after a registry call that ended in st.
After(st) ==
  [store EXCEPT !.rows = st.rows, !.seq = st.seq, !.version = st.version]

AddRepoOf(aliases) ==
  /\ dbh = "open"
  /\ store.seq < MaxId
  /\ \E alias \in aliases, path \in RawPaths :
       LET st == add_repo_to_db(store, alias, path)
       IN /\ store' = After(st)
          /\ status' = st.rc
          /\ calls' = st.calls
          /\ last' = Call("add", alias, path, 0, "none")
  /\ pre' = store
  /\ UNCHANGED <<dbh, conns>>
  /\ UNCHANGED aux

RemoveRepoOf(aliases) ==
  /\ dbh = "open"
  /\ \E alias \in aliases :
       LET st == remove_repo_from_db(store, alias)
       IN /\ store' = After(st)
          /\ status' = st.rc
          /\ calls' = st.calls
          /\ last' = Call("remove", alias, "", 0, "none")
  /\ pre' = store
  /\ UNCHANGED <<dbh, conns>>
  /\ UNCHANGED aux

ForsomeReposOf(aliases) ==
  /\ dbh = "open"
  /\ \E alias \in aliases, h \in Handlers :
       LET st == forsome_repos(store, h, alias)
       IN /\ store' = After(st)
          /\ status' = st.rc
          /\ calls' = st.calls
          /\ last' = Call("forsome", alias, "", h, "none")
  /\ pre' = store
  /\ UNCHANGED <<dbh, conns>>
  /\ UNCHANGED aux

ForeachRepo ==
  /\ dbh = "open"
  /\ \E h \in Handlers :
       LET st == foreach_repo(store, h)
       IN /\ store' = After(st)
          /\ status' = st.rc
          /\ calls' = st.calls
          /\ last' = Call("foreach", <<>>, "", h, "none")
  /\ pre' = store
  /\ UNCHANGED <<dbh, conns>>
  /\ UNCHANGED aux

AddRepo == AddRepoOf(Aliases)
RemoveRepo == RemoveRepoOf(Aliases)
ForsomeRepos == ForsomeReposOf(Aliases)

Next ==
  \/ GetDbHandle
  \/ CloseDbHandle
  \/ AddRepo
  \/ RemoveRepo
  \/ ForsomeRepos
  \/ ForeachRepo

Spec == Init /\ [][Next]_vars

\* The same program, called with the aliases of StampAliases.
AddRepoStamp == AddRepoOf(StampAliases)
RemoveRepoStamp == RemoveRepoOf(StampAliases)
ForsomeReposStamp == ForsomeReposOf(StampAliases)

NextStamp ==
  \/ GetDbHandle
  \/ CloseDbHandle
  \/ AddRepoStamp
  \/ RemoveRepoStamp
  \/ ForsomeReposStamp
  \/ ForeachRepo

SpecStamp == Init /\ [][NextStamp]_vars

\* get_schema_version on its own, against every reply of Replies.
InitVersion ==
  /\ store = NoFile
  /\ Fresh
  /\ ver \in [reply : Replies, version : {0}, phase : {"read"}]
  /\ fmt = FmtIdle
  /\ race = RaceIdle

GetSchemaVersion ==
  /\ ver.phase = "read"
  /\ \E indeterminate \in Indeterminate :
       ver' = [ver EXCEPT
                 !.version = get_schema_version_reply(ver.reply, indeterminate),
                 !.phase = "done"]
  /\ UNCHANGED <<main, fmt, race>>

NextVersion == GetSchemaVersion

SpecVersion == InitVersion /\ [][NextVersion]_vars

\* The buffers of the three calls that format a statement, for every alias
\* length up to MaxAliasLen and every length realpath can write into
\* abspath.
InitFormat ==
  /\ store = NoFile
  /\ Fresh
  /\ ver = VerIdle
  /\ fmt \in [op : {"none"}, alias_len : 0..MaxAliasLen,
              path_len : 1..(PATH_MAX - 1), size : {0}, written : {0}]
  /\ race = RaceIdle

\* malloc and sprintf of add_repo_to_db
FormatAdd ==
  /\ fmt.op = "none"
  /\ fmt' = [fmt EXCEPT
               !.op = "add",
               !.size = AddBufSize(fmt.alias_len),
               !.written =
                 SprintfLen(InsertQuery, <<fmt.alias_len, fmt.path_len>>) + 1]
  /\ UNCHANGED <<main, ver, race>>

\* malloc and sprintf of remove_repo_from_db
FormatRemove ==
  /\ fmt.op = "none"
  /\ fmt' = [fmt EXCEPT
               !.op = "remove",
               !.size = RemoveBufSize(fmt.alias_len),
               !.written = SprintfLen(DeleteQuery, <<fmt.alias_len>>) + 1]
  /\ UNCHANGED <<main, ver, race>>

\* malloc and sprintf of forsome_repos
FormatForsome ==
  /\ fmt.op = "none"
  /\ fmt' = [fmt EXCEPT
               !.op = "forsome",
               !.size = ForsomeBufSize(fmt.alias_len),
               !.written = SprintfLen(SelectQuery, <<fmt.alias_len>>) + 1]
  /\ UNCHANGED <<main, ver, race>>

NextFormat ==
  \/ FormatAdd
  \/ FormatRemove
  \/ FormatForsome

SpecFormat == InitFormat /\ [][NextFormat]_vars

\* get_db_handle step by step, in NumProcs processes at once, with no file
\* at DB_LOCATION to begin with.
InitRace ==
  /\ store = NoFile
  /\ Fresh
  /\ ver = VerIdle
  /\ fmt = FmtIdle
  /\ race = RaceStart("stat")

\* The file process p's connection is on is still the one at DB_LOCATION.
Linked(p) == race.conn[p] # 0 /\ race.conn[p] = race.path

\* get_db_handle: stat(path, &statbuf)
Stat(p) ==
  /\ race.pc[p] = "stat"
  /\ race' = [race EXCEPT
                !.pc[p] = IF race.path = 0 THEN "open" ELSE "open_v2"]
  /\ UNCHANGED <<main, ver, fmt>>

\* create_new_db: sqlite3_open(path, &dbh), which creates an empty file when
\* there is none.
SqliteOpen(p) ==
  /\ race.pc[p] = "open"
  /\ IF race.path # 0
     THEN race' = [race EXCEPT !.conn[p] = race.path, !.pc[p] = "create"]
     ELSE \E f \in Files :
            /\ \A g \in Files :
                 (race.disk[g].unlinked_by # 0 \/ race.path = g) <=> g < f
            /\ race' = [race EXCEPT !.path = f, !.conn[p] = f,
                                    !.pc[p] = "create"]
  /\ UNCHANGED <<main, ver, fmt>>

\* create_new_db: sqlite3_exec(dbh, "CREATE TABLE repos_table(...)").  It
\* fails on a file that has the table and on a file that was unlinked.
CreateTable(p) ==
  /\ race.pc[p] = "create"
  /\ LET f == race.conn[p]
     IN IF ~Linked(p) \/ race.disk[f].table
        THEN race' = [race EXCEPT !.pc[p] = "error"]
        ELSE race' = [race EXCEPT !.disk[f].table = TRUE,
                                  !.disk[f].version = 1,
                                  !.pc[p] = "pragma"]
  /\ UNCHANGED <<main, ver, fmt>>

\* create_new_db: sqlite3_exec(dbh, "PRAGMA schema_version = 1") and
\* return dbh.  The write fails on a file that was unlinked.
StampVersion(p) ==
  /\ race.pc[p] = "pragma"
  /\ LET f == race.conn[p]
     IN IF ~Linked(p)
        THEN race' = [race EXCEPT !.pc[p] = "error"]
        ELSE race' = [race EXCEPT !.disk[f].version = SCHEMA_VERSION,
                                  !.disk[f].stamped_by = p,
                                  !.ret[p] = "open",
                                  !.pc[p] = "done"]
  /\ UNCHANGED <<main, ver, fmt>>

\* create_new_db, error: sqlite3_close(dbh); unlink(path); return NULL
ErrorCleanup(p) ==
  /\ race.pc[p] = "error"
  /\ race' = [race EXCEPT
                !.disk = IF race.path = 0 THEN @
                         ELSE [@ EXCEPT ![race.path].unlinked_by = p],
                !.path = 0,
                !.conn[p] = 0,
                !.ret[p] = "NULL",
                !.pc[p] = "done"]
  /\ UNCHANGED <<main, ver, fmt>>

\* get_db_handle: sqlite3_open_v2(path, &dbh, SQLITE_OPEN_READWRITE, NULL)
OpenV2(p) ==
  /\ race.pc[p] = "open_v2"
  /\ IF race.path = 0
     THEN race' = [race EXCEPT !.ret[p] = "NULL", !.pc[p] = "done"]
     ELSE race' = [race EXCEPT !.conn[p] = race.path, !.pc[p] = "version"]
  /\ UNCHANGED <<main, ver, fmt>>

\* get_db_handle: get_schema_version(dbh) != SCHEMA_VERSION, close_db_handle
CheckVersion(p) ==
  /\ race.pc[p] = "version"
  /\ IF race.disk[race.conn[p]].version # SCHEMA_VERSION
     THEN race' = [race EXCEPT !.conn[p] = 0, !.ret[p] = "NULL",
                               !.pc[p] = "done"]
     ELSE race' = [race EXCEPT !.ret[p] = "open", !.pc[p] = "done"]
  /\ UNCHANGED <<main, ver, fmt>>

\* main returns: close_db_handle(dbh) if it got one, and the program is run
\* again.
Rerun(p) ==
  /\ race.pc[p] = "done"
  /\ race' = [race EXCEPT !.conn[p] = 0, !.ret[p] = "none", !.pc[p] = "stat"]
  /\ UNCHANGED <<main, ver, fmt>>

NextRace ==
  \E p \in Procs :
    \/ Stat(p)
    \/ SqliteOpen(p)
    \/ CreateTable(p)
    \/ StampVersion(p)
    \/ ErrorCleanup(p)
    \/ OpenV2(p)
    \/ CheckVersion(p)
    \/ Rerun(p)

SpecRace == InitRace /\ [][NextRace]_vars

(* ------------------------------ claims --------------------------------- *)

HasAlias(rows, a) == \E r \in rows : r.alias = a
HasPath(rows, p) == \E r \in rows : r.path = p
HasQuote(text) == \E k \in 1..Len(text) : text[k] = Q

\* The entries without their ids.
Entries(rows) == {[alias |-> r.alias, path |-> r.path] : r \in rows}

\* C1: for every alias and every existing raw path with no entry of that
\* alias or that canonical path in the store, a successful insert followed by
\* forAlias with the alias invokes the handler exactly once, with the
\* canonical form of the raw path.
C1_InsertThenForAlias ==
  [][(/\ last.op = "add" /\ status = SQLITE_OK
      /\ ~HasAlias(pre.rows, last.alias)
      /\ ~HasPath(pre.rows, realpath(last.path))
      /\ last'.op = "forsome" /\ last'.alias = last.alias)
     => (Len(calls') = 1 /\ calls'[1][2] = realpath(last.path))]_vars

\* C2: with an entry for alias a stored, insert(a, p2) with a path whose
\* canonical form differs from the stored one fails with a constraint
\* violation and leaves every entry as it was.
C2_SameAliasRejected ==
  (/\ last.op = "add"
   /\ realpath(last.path) # NoPath
   /\ \E r \in pre.rows : r.alias = last.alias /\ r.path # realpath(last.path))
  => (status = SQLITE_CONSTRAINT /\ store.rows = pre.rows)

\* C3: with an entry of canonical path c stored, insert(a2, raw) with another
\* alias and a raw path that resolves to c fails with a constraint violation
\* and leaves the entries unchanged.
C3_SamePathRejected ==
  (/\ last.op = "add"
   /\ \E r \in pre.rows : r.path = realpath(last.path) /\ r.alias # last.alias)
  => (status = SQLITE_CONSTRAINT /\ store.rows = pre.rows)

\* The k-th entry forEach visited: its two invocations.
Visit(k) == [alias |-> calls[2 * k - 1][2], path |-> calls[2 * k][2]]

\* C4: forEach visits the stored entries in ascending lexicographic order of
\* alias, two invocations per entry, the alias column and then the path
\* column; an entry is never visited twice and none is passed over; a call
\* whose handler never fails returns success and has visited every entry.
C4_ForEachOrdered ==
  last.op = "foreach" =>
    /\ Len(calls) % 2 = 0
    /\ \A k \in 1..(Len(calls) \div 2) :
         /\ calls[2 * k - 1][1] = "aliases"
         /\ calls[2 * k][1] = "paths"
         /\ Visit(k) \in Entries(pre.rows)
         /\ k > 1 => LexLess(Visit(k - 1).alias, Visit(k).alias)
         /\ \A r \in pre.rows :
              LexLess(r.alias, Visit(k).alias) =>
                \E j \in 1..(k - 1) : Visit(j).alias = r.alias
    /\ status = 0 => Len(calls) = 2 * Cardinality(pre.rows)
    /\ last.h = 0 => status = 0

\* C4 witness: forEach ran to the end over two entries that were inserted in
\* descending order of alias.
C4_Witness ==
  /\ last.op = "foreach" /\ status = 0 /\ Len(calls) >= 4
  /\ \E r1, r2 \in pre.rows : r1.id < r2.id /\ LexLess(r2.alias, r1.alias)

\* C5: with an entry for alias a stored, remove(a) returns success and keeps
\* every entry of another alias, and a following forAlias(a) returns success
\* without invoking the handler.
C5_RemoveExisting ==
  [][/\ (last'.op = "remove" /\ HasAlias(store.rows, last'.alias))
          => /\ status' = SQLITE_OK
             /\ {r \in store.rows : r.alias # last'.alias} \subseteq store'.rows
     /\ (/\ last.op = "remove" /\ HasAlias(pre.rows, last.alias)
         /\ last'.op = "forsome" /\ last'.alias = last.alias)
          => (status' = SQLITE_OK /\ calls' = <<>>)]_vars

\* C6: with no entry for alias a stored, remove(a) returns success and the
\* stored entries are the same after the call as before.
C6_RemoveAbsent ==
  (last.op = "remove" /\ ~HasAlias(pre.rows, last.alias))
  => (status = SQLITE_OK /\ store.rows = pre.rows)

\* C7: insert with an alias or a path that holds a quote character succeeds
\* (no entry conflicts with it), and forAlias with that alias then invokes
\* the handler exactly once, with the canonical path that was inserted.
C7_QuoteRoundTrip ==
  [][/\ (/\ last'.op = "add"
         /\ realpath(last'.path) # NoPath
         /\ HasQuote(last'.alias) \/ HasQuote(realpath(last'.path))
         /\ ~HasAlias(store.rows, last'.alias)
         /\ ~HasPath(store.rows, realpath(last'.path)))
          => status' = SQLITE_OK
     /\ (/\ last.op = "add" /\ status = SQLITE_OK
         /\ HasQuote(last.alias) \/ HasQuote(realpath(last.path))
         /\ last'.op = "forsome" /\ last'.alias = last.alias)
          => calls' = << <<"paths", realpath(last.path)>> >>]_vars

\* C8: for every alias string, remove(alias) deletes at most the entry whose
\* alias equals the argument and leaves every other entry as it was.
C8_RemoveExact ==
  last.op = "remove" =>
    /\ store.rows \subseteq pre.rows
    /\ \A r \in pre.rows \ store.rows : r.alias = last.alias

\* C9: forAlias and forEach leave the stored entries unchanged, and forAlias
\* invokes the handler only for the entry whose alias equals the argument.
C9_IterationReadsOnly ==
  last.op \in {"forsome", "foreach"} =>
    /\ store.rows = pre.rows
    /\ last.op = "forsome" =>
         \A k \in 1..Len(calls) :
           \E r \in pre.rows : r.alias = last.alias /\ r.path = calls[k][2]

\* get_db_handle got as far as reading the version of an existing file.
ReadVersion ==
  last.op = "open" /\ pre.exists /\ last.fault \notin {"wordexp", "stat", "open_v2"}

\* C10: when get_db_handle opens an existing file whose version stamp is
\* unreadable or is not SCHEMA_VERSION, it returns no handle, the connection
\* it opened is closed again, and the file is as it was.
C10_MismatchRefused ==
  (ReadVersion /\ (~pre.valid \/ pre.version # SCHEMA_VERSION))
  => (dbh = "NULL" /\ conns = 0 /\ store = pre)

\* C10 witness: a file stamped with another version, holding an entry, was
\* opened and refused.
C10_Witness ==
  /\ ReadVersion /\ pre.valid /\ pre.version # SCHEMA_VERSION /\ pre.rows # {}
  /\ dbh = "NULL"

\* get_db_handle ran with nothing failing in its environment.
OpenedUnhindered(call) == call.op = "open" /\ call.fault = "none"

\* C11: with no store file, open() creates one and returns a handle; after
\* close() a second open() succeeds, and the schema version read from the
\* store is SCHEMA_VERSION after the creation and after the reopen, whatever
\* inserts and removes ran in between.
C11_ReopenSameVersion ==
  [][/\ (OpenedUnhindered(last') /\ ~store.exists)
          => (dbh' = "open" /\ get_schema_version(store') = SCHEMA_VERSION)
     /\ (OpenedUnhindered(last') /\ last.op = "close")
          => (dbh' = "open" /\ get_schema_version(store') = SCHEMA_VERSION)]_vars

C13_NoRowsSucceeds ==
  /\ (last.op = "foreach" /\ pre.rows = {}) => (status = 0 /\ calls = <<>>)
  /\ (last.op = "forsome" /\ ~HasAlias(pre.rows, last.alias))
       => (status = SQLITE_OK /\ calls = <<>>)

\* create_new_db ran and one of its three steps failed.
CreateFailed ==
  last.op = "open" /\ ~pre.exists /\ last.fault \in {"open", "create", "pragma"}

\* C14: a failure at any step of create_new_db (opening the file, creating
\* the table, writing the version) ends with the connection closed, no file
\* at the path and no handle returned.
C14_CreateFailureCleansUp ==
  CreateFailed => (dbh = "NULL" /\ conns = 0 /\ ~store.exists)

\* C16: on every exit path of get_db_handle, either a usable handle is
\* returned or every connection it acquired has been released.
C16_OpenReleasesOrReturns ==
  last.op = "open" =>
    \/ dbh = "open" /\ conns = 1
    \/ dbh = "NULL" /\ conns = 0

Unique(rows) ==
  \A r1, r2 \in rows : (r1.alias = r2.alias \/ r1.path = r2.path) => r1 = r2

\* C17: in every state no two stored entries have the same alias and no two
\* have the same path, and an entry that stays stored keeps its alias and
\* path.
C17_UniqueAndImmutable ==
  [][/\ Unique(store.rows)
     /\ Unique(store'.rows)
     /\ \A r \in store.rows, n \in store'.rows : n.id = r.id => n = r]_vars

\* C18: insert with a raw path that realpath cannot resolve returns a failure
\* result and runs no statement: the file is as it was.
C18_UnresolvedPathFails ==
  (last.op = "add" /\ realpath(last.path) = NoPath)
  => (status = SQLITE_ERROR /\ store = pre)

\* C18 witness: an insert of a new alias with a path that does not exist.
C18_Witness ==
  /\ last.op = "add" /\ last.path = "/nope" /\ last.alias = <<"x">>
  /\ ~HasAlias(pre.rows, <<"x">>) /\ status = SQLITE_ERROR

IsDecimal(text) ==
  text # <<>> /\ \A k \in 1..Len(text) : IsDigit(text[k])

\* The read produced exactly one row with exactly one column, named
\* schema_version, whose text is in full a decimal integer.
OneValue(reply) ==
  /\ reply.rc = SQLITE_OK
  /\ Len(reply.rows) = 1
  /\ reply.rows[1].argc = 1
  /\ reply.rows[1].col_name = "schema_version"
  /\ IsDecimal(reply.rows[1].argv)

\* C15: get_schema_version returns a version only when the read produced
\* exactly one row with exactly one column named schema_version whose text is
\* in full a decimal integer; in every other case (no row, more than one
\* value, another column name, empty text, trailing non-numeric characters)
\* it returns the failure value and never SCHEMA_VERSION.
C15_VersionOnlyFromOneValue ==
  (ver.phase = "done" /\ ~OneValue(ver.reply))
  => (ver.version = -1 /\ ver.version # SCHEMA_VERSION)

\* C20: for every alias length and every canonical path length below
\* PATH_MAX, the statement add_repo_to_db, remove_repo_from_db and
\* forsome_repos format, with its terminating NUL, is no longer than the
\* buffer allocated for it.
C20_QueryFitsBuffer ==
  fmt.op \in {"add", "remove", "forsome"} => fmt.written <= fmt.size

\* C20 witness: add_repo_to_db has formatted its statement for the longest
\* path realpath can return; the text and its NUL leave five bytes unused.
C20_Witness ==
  /\ fmt.op = "add" /\ fmt.alias_len = 1 /\ fmt.path_len = PATH_MAX - 1
  /\ fmt.written = fmt.size - 5

\* C19: when processes run get_db_handle at once with no file to begin with,
\* in every interleaving of their steps a file one process has created and
\* stamped is never unlinked by another process, and no process holds a
\* returned handle whose file was unlinked.
C19_NoForeignUnlink ==
  /\ \A f \in Files :
       (race.disk[f].stamped_by # 0 /\ race.disk[f].unlinked_by # 0)
       => race.disk[f].unlinked_by = race.disk[f].stamped_by
  /\ \A p \in Procs : race.ret[p] = "open" => Linked(p)

====
